---- MODULE Spec2Model ----
(***************************************************************************)
(* Dragonseeker: one game session and the request handlers of             *)
(* app/routes/lobby.py and app/routes/gameplay.py acting on it.           *)
(*                                                                         *)
(* The handlers are `async def` coroutines on one event loop: a handler    *)
(* runs without interruption from one `await` to the next, so every action *)
(* below is the code between two awaits.  The session object              *)
(* (core/game_session.py), the services (services/*.py) and the join route *)
(* are modelled from the specification of the system.                      *)
(***************************************************************************)
EXTENDS Integers, Naturals, Sequences, FiniteSets, TLC

\* ---- bounds of the model ----
MaxPlayers == 3
MaxTime == 30
TickStep == 30
MaxInflight == 1
MaxClock == 182

\* ---- program constants ----
MinPlayers == 3
MinTimer == 30
MaxTimer == 180
MaxGuessLen == 50

\* Python's optional values: None, or a value
None == <<>>
Some(x) == <<x>>
Val(o) == o[1]

GameId == "g1"
OtherGame == "g2"
GameIds == {GameId, OtherGame}
HostId == 1
UnknownId == 0
ReqIds == 0..MaxPlayers

LOBBY == "lobby"
PLAYING == "playing"
VOTING == "voting"
DRAGON_GUESS == "dragon_guess"
FINISHED == "finished"
GameState == {LOBBY, PLAYING, VOTING, DRAGON_GUESS, FINISHED}

DRAGON == "dragon"
KNIGHT == "knight"
VILLAGER == "villager"
Role == {DRAGON, KNIGHT, VILLAGER}

VARIABLES game, now, awaiting_json, resp, hist

vars == <<game, now, awaiting_json, resp, hist>>

\* ---- strings: sequences of one-character strings ----
RECURSIVE Repeat(_, _)
Repeat(c, n) == IF n = 0 THEN <<>> ELSE <<c>> \o Repeat(c, n - 1)

LowerChar(c) == IF c = "A" THEN "a" ELSE IF c = "B" THEN "b" ELSE c

Lower(s) == [i \in 1..Len(s) |-> LowerChar(s[i])]

RECURSIVE LStrip(_)
LStrip(s) == IF s # <<>> /\ Head(s) = " " THEN LStrip(Tail(s)) ELSE s

RECURSIVE RStrip(_)
RStrip(s) ==
    IF s # <<>> /\ s[Len(s)] = " " THEN RStrip(SubSeq(s, 1, Len(s) - 1)) ELSE s

Strip(s) == RStrip(LStrip(s))

\* (common word, special word) pairs of the word bank
WordPairs == { << <<"A", "b">>, <<"b", "a">> >> }

Guesses ==
    { <<" ">>, <<" ", "A", "B", " ">>, <<"b", "a">>,
      Repeat("a", MaxGuessLen + 1), <<" ">> \o Repeat("b", MaxGuessLen) \o <<" ">> }

TimerInputs ==
    {None, Some(MinTimer - 1), Some(MinTimer), Some(MaxTimer), Some(MaxTimer + 1)}

\* ---- authentication (core/auth.py) ----
Token(gid, pid) == Some([game_id |-> gid, player_id |-> pid])

\* the credentials a request naming (gid, pid) may carry: none, the token of
\* that pair, or the token of another player of the game
OtherPlayer(pid) == IF pid = HostId THEN HostId + 1 ELSE HostId

TokenInputs(gid, pid) == {None, Token(gid, pid), Token(gid, OtherPlayer(pid))}

\* the requests: every player id (and an unknown one) with each credential on this
\* game, and on a game that does not exist a request with its own token and one
\* with a token of this game
Requests ==
    UNION { { <<GameId, pid, tok>> : tok \in TokenInputs(GameId, pid) } : pid \in ReqIds }
        \cup { <<OtherGame, HostId, Token(OtherGame, HostId)>>,
               <<OtherGame, HostId, Token(GameId, HostId)>> }

\* get_token_data: a request without a valid signed token is refused
get_token_data(tok) == tok # None

verify_token_matches(token_data, game_id, player_id) ==
    ~ (Val(token_data).game_id # game_id \/ Val(token_data).player_id # player_id)

\* 0 when the request passes authentication, else the HTTP status it is refused with
AuthStatus(gid, pid, tok) ==
    IF ~ get_token_data(tok) THEN 401
    ELSE IF ~ verify_token_matches(tok, gid, pid) THEN 403
    ELSE 0

\* ---- the session ----
NewGame ==
    [ state |-> LOBBY,
      players |-> {HostId},
      is_host |-> [p \in {HostId} |-> TRUE],
      is_alive |-> [p \in {HostId} |-> TRUE],
      role |-> [p \in {HostId} |-> None],
      villager_word |-> None,
      knight_word |-> None,
      votes |-> <<>>,
      last_result |-> None,
      winner |-> None,
      dragon_guess |-> None,
      voting_timer_seconds |-> None,
      voting_started_at |-> None ]

get_game(gid) == gid = GameId

Alive(g) == {p \in g.players : g.is_alive[p]}

\* the outcome of the last request: the HTTP status and, when a handler acted on
\* it, the handler, what it returned, whether it called broadcast_state, whether
\* the credential of the request is the token of the (game, player) it named, and
\* whether that player is the host
Reply(op, result, bc, g, gid, pid, tok) ==
    [ op |-> op, status |-> 200, result |-> result, bcast |-> bc,
      authentic |-> (tok = Token(gid, pid)),
      by_host |-> (get_game(gid) /\ pid \in g.players /\ g.is_host[pid]) ]

\* a request refused with an HTTP error status
Refused(op, status, g, gid, pid) ==
    [ op |-> op, status |-> status, result |-> "error", bcast |-> FALSE,
      authentic |-> FALSE,
      by_host |-> (get_game(gid) /\ pid \in g.players /\ g.is_host[pid]) ]

\* a request answered without the session being acted on
Shown(op, result) ==
    [ op |-> op, status |-> 200, result |-> result, bcast |-> FALSE,
      authentic |-> FALSE, by_host |-> FALSE ]

NoResp == Reply("create", "created", FALSE, NewGame, GameId, HostId, Token(GameId, HostId))

\* bookkeeping of the current voting round: tallies and timer expiries applied,
\* votes accepted, and the number of players alive when it began
NoHist == [tallies |-> 0, expiries |-> 0, accepted |-> 0, electorate |-> 0]

Init ==
    /\ game = NewGame
    /\ now = 0
    /\ awaiting_json = 0
    /\ resp = NoResp
    /\ hist = NoHist

\* time passes
Tick ==
    /\ now + TickStep <= MaxTime
    /\ now' = now + TickStep
    /\ UNCHANGED <<game, awaiting_json, resp, hist>>

\* the handler raises HTTPException(status)
Reject(op, status, gid, pid) ==
    /\ resp' = Refused(op, status, game, gid, pid)
    /\ UNCHANGED <<game, hist>>

\* the handler returns without acting on the session
Show(op, result) ==
    /\ resp' = Shown(op, result)
    /\ UNCHANGED <<game, hist>>

\* ---- join ----
AddPlayer(g, p) ==
    [ g EXCEPT !.players = @ \cup {p},
               !.is_host = [q \in g.players \cup {p} |->
                                IF q = p THEN FALSE ELSE g.is_host[q]],
               !.is_alive = [q \in g.players \cup {p} |->
                                IF q = p THEN TRUE ELSE g.is_alive[q]],
               !.role = [q \in g.players \cup {p} |->
                                IF q = p THEN None ELSE g.role[q]] ]

\* a new player joins a roster of fewer than n players and is issued the token of
\* its (game, player) pair
JoinWithin(n, gid) ==
    /\ Cardinality(game.players) < n
    /\ IF ~ get_game(gid) THEN Reject("join", 404, gid, UnknownId)
       ELSE IF game.state # LOBBY THEN Reject("join", 400, gid, UnknownId)
       ELSE LET p == Cardinality(game.players) + 1
            IN /\ game' = AddPlayer(game, p)
               /\ resp' = Reply("join", "joined", TRUE, game', gid, p, Token(gid, p))
               /\ UNCHANGED hist
    /\ UNCHANGED <<now, awaiting_json>>

Join(gid) == JoinWithin(MaxPlayers, gid)

\* ---- lobby.py ----
\* mutant: any player of the roster passes the host check
IsHostPlayer_AnyPlayer(g, pid) == pid \in g.players

\* `not player or not player.is_host` is false
IsHostPlayer(g, pid) == pid \in g.players /\ g.is_host[pid]

can_start_game(g) == g.state = LOBBY /\ Cardinality(g.players) >= MinPlayers

\* number of Knights for a roster of n players
KnightCount(n) == 1

\* mutant: every player draws its role on its own
RoleAssignments_Independent(ps) == [ps -> Role]

\* every assignment with exactly one Dragon and KnightCount Knights
RoleAssignments(ps) ==
    { r \in [ps -> Role] :
        /\ Cardinality({p \in ps : r[p] = DRAGON}) = 1
        /\ Cardinality({p \in ps : r[p] = KNIGHT}) = KnightCount(Cardinality(ps)) }

\* GameSession.start_game with the drawn word pair and role assignment
GameStartGame(g, words, roles) ==
    [ g EXCEPT !.villager_word = Some(words[1]),
               !.knight_word = Some(words[2]),
               !.role = [p \in g.players |-> Some(roles[p])],
               !.state = PLAYING ]

\* mutant: can_start_game is not consulted
StartGame_NoCanStart(gid, pid, tok) ==
    /\ IF ~ get_game(gid) THEN Reject("start_game", 404, gid, pid)
       ELSE IF ~ IsHostPlayer(game, pid) THEN Reject("start_game", 403, gid, pid)
       ELSE \E words \in WordPairs, roles \in RoleAssignments(game.players) :
            /\ game' = GameStartGame(game, words, roles)
            /\ resp' = Reply("start_game", "started", TRUE, game, gid, pid, tok)
            /\ UNCHANGED hist
    /\ UNCHANGED <<now, awaiting_json>>

\* mutant: only the size of the roster is checked, not the phase
StartGame_Restart(gid, pid, tok) ==
    /\ IF ~ get_game(gid) THEN Reject("start_game", 404, gid, pid)
       ELSE IF ~ IsHostPlayer(game, pid) THEN Reject("start_game", 403, gid, pid)
       ELSE IF Cardinality(game.players) < MinPlayers THEN
            Reject("start_game", 400, gid, pid)
       ELSE \E words \in WordPairs, roles \in RoleAssignments(game.players) :
            /\ game' = GameStartGame(game, words, roles)
            /\ resp' = Reply("start_game", "started", TRUE, game, gid, pid, tok)
            /\ UNCHANGED hist
    /\ UNCHANGED <<now, awaiting_json>>

StartGame(gid, pid, tok) ==
    /\ IF ~ get_game(gid) THEN Reject("start_game", 404, gid, pid)
       ELSE IF ~ IsHostPlayer(game, pid) THEN Reject("start_game", 403, gid, pid)
       ELSE IF ~ can_start_game(game) THEN Reject("start_game", 400, gid, pid)
       ELSE \E words \in WordPairs, roles \in RoleAssignments(game.players) :
            /\ game' = GameStartGame(game, words, roles)
            /\ resp' = Reply("start_game", "started", TRUE, game, gid, pid, tok)
            /\ UNCHANGED hist
    /\ UNCHANGED <<now, awaiting_json>>

\* GameSession.set_voting_timer raises no ValueError
TimerValueOk(g, v) ==
    /\ g.state = LOBBY
    /\ v = None \/ (Val(v) >= MinTimer /\ Val(v) <= MaxTimer)

set_voting_timer(g, v) == [g EXCEPT !.voting_timer_seconds = v]

\* set_timer up to `await request.json()`, where the handler is suspended
SetTimerBegin(gid, pid) ==
    /\ IF ~ get_game(gid) THEN
            Reject("set_timer", 404, gid, pid) /\ UNCHANGED awaiting_json
       ELSE IF ~ IsHostPlayer(game, pid) THEN
            Reject("set_timer", 403, gid, pid) /\ UNCHANGED awaiting_json
       ELSE /\ awaiting_json < MaxInflight
            /\ awaiting_json' = awaiting_json + 1
            /\ UNCHANGED <<game, resp, hist>>
    /\ UNCHANGED now

\* mutant: the handler stores the value itself instead of calling set_voting_timer
SetTimerBody_DirectAssign(tok, v) ==
    /\ awaiting_json > 0
    /\ awaiting_json' = awaiting_json - 1
    /\ game' = [game EXCEPT !.voting_timer_seconds = v]
    /\ resp' = Reply("set_timer", "timer_set", FALSE, game, GameId, HostId, tok)
    /\ UNCHANGED <<now, hist>>

\* set_timer from the arrival of the body on.  Only requests naming the host get
\* here; the handler never reads the credential of its request, which is drawn
\* here, where the outcome is recorded
SetTimerBody(tok, v) ==
    /\ awaiting_json > 0
    /\ awaiting_json' = awaiting_json - 1
    /\ IF ~ TimerValueOk(game, v) THEN Reject("set_timer", 400, GameId, HostId)
       ELSE /\ game' = set_voting_timer(game, v)
            /\ resp' = Reply("set_timer", "timer_set", FALSE, game, GameId, HostId, tok)
            /\ UNCHANGED hist
    /\ UNCHANGED now

\* ---- services and session operations used by gameplay.py ----
can_start_voting(g) == g.state = PLAYING

transition_to_voting(g) == [g EXCEPT !.votes = <<>>, !.state = VOTING]

transition_to_playing(g) == [g EXCEPT !.state = PLAYING]

transition_to_finished(g, winner) == [g EXCEPT !.winner = Some(winner), !.state = FINISHED]

Max(a, b) == IF a >= b THEN a ELSE b

\* mutant: the difference is returned without the floor at 0
get_voting_time_remaining_NoFloor(g, t) ==
    IF g.voting_timer_seconds = None \/ g.voting_started_at = None THEN None
    ELSE Some(Val(g.voting_timer_seconds) - (t - Val(g.voting_started_at)))

get_voting_time_remaining(g, t) ==
    IF g.voting_timer_seconds = None \/ g.voting_started_at = None THEN None
    ELSE Some(Max(0, Val(g.voting_timer_seconds) - (t - Val(g.voting_started_at))))

can_vote(g, pid) ==
    /\ g.state = VOTING
    /\ pid \in g.players
    /\ g.is_alive[pid]
    /\ pid \notin DOMAIN g.votes

\* GameSession.submit_vote raises no ValueError
ValidVote(g, voter, target) ==
    /\ g.state = VOTING
    /\ voter \in g.players /\ target \in g.players
    /\ g.is_alive[voter] /\ voter \notin DOMAIN g.votes
    /\ g.is_alive[target]

RecordVote(g, voter, target) ==
    [g EXCEPT !.votes = [v \in DOMAIN g.votes \cup {voter} |->
                            IF v = voter THEN target ELSE g.votes[v]]]

all_votes_submitted(g) == Cardinality(DOMAIN g.votes) = Cardinality(Alive(g))

VoteCount(g, target) == Cardinality({v \in DOMAIN g.votes : g.votes[v] = target})

\* the targets holding the maximum vote count
Leaders(g) ==
    { t \in g.players :
        /\ VoteCount(g, t) > 0
        /\ \A u \in g.players : VoteCount(g, u) <= VoteCount(g, t) }

tally_votes(g) ==
    IF Cardinality(Leaders(g)) = 1
    THEN LET e == CHOOSE t \in Leaders(g) : TRUE
         IN [g EXCEPT !.is_alive[e] = FALSE, !.last_result = Some(e)]
    ELSE [g EXCEPT !.last_result = None]

check_dragon_eliminated(g) ==
    g.last_result # None /\ g.role[Val(g.last_result)] = Some(DRAGON)

determine_winner(g) ==
    IF check_dragon_eliminated(g) THEN None
    ELSE IF Cardinality({p \in Alive(g) : g.role[p] # Some(DRAGON)}) < 2 THEN Some("dragon")
    ELSE None

\* ---- gameplay.py ----
\* mutant: the start instant is set only when none is stored
StartVoting_KeepStart(gid, pid, tok) ==
    /\ IF AuthStatus(gid, pid, tok) # 0 THEN
            Reject("start_voting", AuthStatus(gid, pid, tok), gid, pid)
       ELSE IF ~ get_game(gid) THEN Reject("start_voting", 404, gid, pid)
       ELSE IF ~ IsHostPlayer(game, pid) THEN Reject("start_voting", 403, gid, pid)
       ELSE IF ~ can_start_voting(game) THEN Reject("start_voting", 400, gid, pid)
       ELSE /\ game' = LET g == transition_to_voting(game)
                       IN IF g.voting_timer_seconds # None /\ g.voting_started_at = None
                          THEN [g EXCEPT !.voting_started_at = Some(now)]
                          ELSE g
            /\ resp' = Reply("start_voting", "voting_started", TRUE, game, gid, pid, tok)
            /\ hist' = [tallies |-> 0, expiries |-> 0, accepted |-> 0,
                        electorate |-> Cardinality(Alive(game))]
    /\ UNCHANGED <<now, awaiting_json>>

\* mutant: the phase is assigned without transition_to_voting, so the votes of
\* the round before are kept
StartVoting_NoClear(gid, pid, tok) ==
    /\ IF AuthStatus(gid, pid, tok) # 0 THEN
            Reject("start_voting", AuthStatus(gid, pid, tok), gid, pid)
       ELSE IF ~ get_game(gid) THEN Reject("start_voting", 404, gid, pid)
       ELSE IF ~ IsHostPlayer(game, pid) THEN Reject("start_voting", 403, gid, pid)
       ELSE IF ~ can_start_voting(game) THEN Reject("start_voting", 400, gid, pid)
       ELSE /\ game' = LET g == [game EXCEPT !.state = VOTING]
                       IN IF g.voting_timer_seconds # None
                          THEN [g EXCEPT !.voting_started_at = Some(now)]
                          ELSE g
            /\ resp' = Reply("start_voting", "voting_started", TRUE, game, gid, pid, tok)
            /\ hist' = [tallies |-> 0, expiries |-> 0, accepted |-> 0,
                        electorate |-> Cardinality(Alive(game))]
    /\ UNCHANGED <<now, awaiting_json>>

StartVoting(gid, pid, tok) ==
    /\ IF AuthStatus(gid, pid, tok) # 0 THEN Reject("start_voting", AuthStatus(gid, pid, tok), gid, pid)
       ELSE IF ~ get_game(gid) THEN Reject("start_voting", 404, gid, pid)
       ELSE IF ~ IsHostPlayer(game, pid) THEN Reject("start_voting", 403, gid, pid)
       ELSE IF ~ can_start_voting(game) THEN Reject("start_voting", 400, gid, pid)
       ELSE /\ game' = LET g == transition_to_voting(game)
                       IN IF g.voting_timer_seconds # None
                          THEN [g EXCEPT !.voting_started_at = Some(now)]
                          ELSE g
            /\ resp' = Reply("start_voting", "voting_started", TRUE, game, gid, pid, tok)
            /\ hist' = [tallies |-> 0, expiries |-> 0, accepted |-> 0,
                        electorate |-> Cardinality(Alive(game))]
    /\ UNCHANGED <<now, awaiting_json>>

\* mutant: the timer check forgets the phase
TimerShown_NoPhaseCheck(g) ==
    ~ (g.voting_timer_seconds = None \/ g.voting_timer_seconds = Some(0))

\* the timer is shown: `game.state != VOTING or not game.voting_timer_seconds` is false
TimerShown(g) ==
    ~ (g.state # VOTING \/ g.voting_timer_seconds = None \/ g.voting_timer_seconds = Some(0))

\* mutant: a timer that has run out is only hidden; the phase is left as it is
GetTimer_NoExpiry(gid, pid, tok) ==
    /\ IF ~ get_game(gid) THEN Show("get_timer", "hidden")
       ELSE IF ~ (pid \in game.players /\ game.is_alive[pid]) THEN Show("get_timer", "hidden")
       ELSE IF ~ TimerShown(game) THEN Show("get_timer", "hidden")
       ELSE LET time_remaining == get_voting_time_remaining(game, now)
            IN IF time_remaining = Some(0) THEN Show("get_timer", "hidden")
               ELSE IF ~ (time_remaining # None /\ Val(time_remaining) > 0) THEN
                    Reject("get_timer", 500, gid, pid)
               ELSE Show("get_timer", "countdown")
    /\ UNCHANGED <<now, awaiting_json>>

\* mutant: on expiry the votes cast so far are tallied
GetTimer_TallyOnExpiry(gid, pid, tok) ==
    /\ IF ~ get_game(gid) THEN Show("get_timer", "hidden")
       ELSE IF ~ (pid \in game.players /\ game.is_alive[pid]) THEN Show("get_timer", "hidden")
       ELSE IF ~ TimerShown(game) THEN Show("get_timer", "hidden")
       ELSE LET time_remaining == get_voting_time_remaining(game, now)
            IN IF time_remaining = Some(0) THEN
                    /\ game' = transition_to_playing(tally_votes(game))
                    /\ resp' = Reply("get_timer", "expired", TRUE, game, gid, pid, tok)
                    /\ hist' = [hist EXCEPT !.expiries = @ + 1]
               ELSE IF ~ (time_remaining # None /\ Val(time_remaining) > 0) THEN
                    Reject("get_timer", 500, gid, pid)
               ELSE Show("get_timer", "countdown")
    /\ UNCHANGED <<now, awaiting_json>>

GetTimer(gid, pid, tok) ==
    /\ IF ~ get_game(gid) THEN Show("get_timer", "hidden")
       ELSE IF ~ (pid \in game.players /\ game.is_alive[pid]) THEN Show("get_timer", "hidden")
       ELSE IF ~ TimerShown(game) THEN Show("get_timer", "hidden")
       ELSE LET time_remaining == get_voting_time_remaining(game, now)
            IN IF time_remaining = Some(0) THEN
                    /\ game' = transition_to_playing(game)
                    /\ resp' = Reply("get_timer", "expired", TRUE, game, gid, pid, tok)
                    /\ hist' = [hist EXCEPT !.expiries = @ + 1]
               ELSE IF ~ (time_remaining # None /\ Val(time_remaining) > 0) THEN
                    \* the assertion fails
                    Reject("get_timer", 500, gid, pid)
               ELSE Show("get_timer", "countdown")
    /\ UNCHANGED <<now, awaiting_json>>

\* mutant: a voter who has already voted is not refused
VoteAccepted_NoDupCheck(g, pid, target) ==
    /\ g.state = VOTING
    /\ pid \in g.players /\ target \in g.players
    /\ g.is_alive[pid] /\ g.is_alive[target]

\* neither can_vote nor GameSession.submit_vote refuses the vote
VoteAccepted(g, pid, target) == can_vote(g, pid) /\ ValidVote(g, pid, target)

\* mutant: the round is taken as complete one vote early
RoundComplete_OneEarly(g) == Cardinality(DOMAIN g.votes) >= Cardinality(Alive(g)) - 1

\* `all_votes_submitted(game)` holds after the vote
RoundComplete(g) == all_votes_submitted(g)

\* mutant: the phase is assigned without transition_to_finished, as it is for
\* DRAGON_GUESS, so the winner is not stored
VoteOutcome_StateOnly(g) ==
    LET t == tally_votes(g)
        winner == determine_winner(t)
    IN IF check_dragon_eliminated(t) THEN [t EXCEPT !.state = DRAGON_GUESS]
       ELSE IF winner # None THEN [t EXCEPT !.state = FINISHED]
       ELSE transition_to_playing(t)

\* mutant: the winner found by determine_winner is ignored
VoteOutcome_NoAttrition(g) ==
    LET t == tally_votes(g)
    IN IF check_dragon_eliminated(t) THEN [t EXCEPT !.state = DRAGON_GUESS]
       ELSE transition_to_playing(t)

\* mutant: the branch that continues the game does not go back to PLAYING
VoteOutcome_NoReturn(g) ==
    LET t == tally_votes(g)
        winner == determine_winner(t)
    IN IF check_dragon_eliminated(t) THEN [t EXCEPT !.state = DRAGON_GUESS]
       ELSE IF winner # None THEN transition_to_finished(t, Val(winner))
       ELSE t

\* mutant: eliminating the Dragon ends the game for the villagers at once
VoteOutcome_VillagersWin(g) ==
    LET t == tally_votes(g)
        winner == determine_winner(t)
    IN IF check_dragon_eliminated(t) THEN transition_to_finished(t, "villagers")
       ELSE IF winner # None THEN transition_to_finished(t, Val(winner))
       ELSE transition_to_playing(t)

\* all votes are in: tally, then DRAGON_GUESS, FINISHED or PLAYING
VoteOutcome(g) ==
    LET t == tally_votes(g)
        winner == determine_winner(t)
    IN IF check_dragon_eliminated(t) THEN [t EXCEPT !.state = DRAGON_GUESS]
       ELSE IF winner # None THEN transition_to_finished(t, Val(winner))
       ELSE transition_to_playing(t)

SubmitVote(gid, pid, tok, target) ==
    /\ IF AuthStatus(gid, pid, tok) # 0 THEN Reject("submit_vote", AuthStatus(gid, pid, tok), gid, pid)
       ELSE IF ~ get_game(gid) THEN Reject("submit_vote", 404, gid, pid)
       ELSE IF ~ VoteAccepted(game, pid, target) THEN Reject("submit_vote", 400, gid, pid)
       ELSE LET g == RecordVote(game, pid, target)
            IN IF RoundComplete(g) THEN
                    /\ game' = VoteOutcome(g)
                    /\ resp' = Reply("submit_vote", "vote_complete", TRUE, game, gid, pid, tok)
                    /\ hist' = [hist EXCEPT !.accepted = @ + 1, !.tallies = @ + 1]
               ELSE /\ game' = g
                    /\ resp' = Reply("submit_vote", "vote_submitted", TRUE, game, gid, pid, tok)
                    /\ hist' = [hist EXCEPT !.accepted = @ + 1]
    /\ UNCHANGED <<now, awaiting_json>>

\* mutant: any player of the game may guess
IsDragonPlayer_AnyPlayer(g, pid) == pid \in g.players

\* `not player or player.role != Role.DRAGON.value` is false
IsDragonPlayer(g, pid) == pid \in g.players /\ g.role[pid] = Some(DRAGON)

\* mutant: the phase is not checked
GuessPhase_Any(g) == TRUE

\* mutant: a guess is also taken once the game is over
GuessPhase_OrFinished(g) == g.state \in {DRAGON_GUESS, FINISHED}

\* `game.state != GameState.DRAGON_GUESS` is false
GuessPhase(g) == g.state = DRAGON_GUESS

\* mutant: the guess is stored before its length is validated
GuessWord_StoreFirst(gid, pid, tok, guess) ==
    /\ IF AuthStatus(gid, pid, tok) # 0 THEN
            Reject("guess_word", AuthStatus(gid, pid, tok), gid, pid)
       ELSE IF ~ get_game(gid) THEN Reject("guess_word", 404, gid, pid)
       ELSE IF ~ IsDragonPlayer(game, pid) THEN Reject("guess_word", 403, gid, pid)
       ELSE IF game.state # DRAGON_GUESS THEN Reject("guess_word", 400, gid, pid)
       ELSE IF game.villager_word = None \/ game.villager_word = Some(<<>>) THEN
            Reject("guess_word", 500, gid, pid)
       ELSE LET cleaned == Lower(Strip(guess))
                stored == [game EXCEPT !.dragon_guess = Some(cleaned)]
            IN IF Len(cleaned) > MaxGuessLen \/ cleaned = <<>> THEN
                    /\ game' = stored
                    /\ resp' = Refused("guess_word", 400, game, gid, pid)
                    /\ UNCHANGED hist
               ELSE LET correct == cleaned = Lower(Val(game.villager_word))
                        winner == IF correct THEN "dragon" ELSE "villagers"
                    IN /\ game' = transition_to_finished(stored, winner)
                       /\ resp' = Reply("guess_word", winner, TRUE, game, gid, pid, tok)
                       /\ UNCHANGED hist
    /\ UNCHANGED <<now, awaiting_json>>

\* mutant: the guess is compared with the word as it is stored, not lowered
GuessWord_NoLower(gid, pid, tok, guess) ==
    /\ IF AuthStatus(gid, pid, tok) # 0 THEN
            Reject("guess_word", AuthStatus(gid, pid, tok), gid, pid)
       ELSE IF ~ get_game(gid) THEN Reject("guess_word", 404, gid, pid)
       ELSE IF ~ IsDragonPlayer(game, pid) THEN Reject("guess_word", 403, gid, pid)
       ELSE IF game.state # DRAGON_GUESS THEN Reject("guess_word", 400, gid, pid)
       ELSE IF game.villager_word = None \/ game.villager_word = Some(<<>>) THEN
            Reject("guess_word", 500, gid, pid)
       ELSE LET cleaned == Lower(Strip(guess))
            IN IF Len(cleaned) > MaxGuessLen THEN Reject("guess_word", 400, gid, pid)
               ELSE IF cleaned = <<>> THEN Reject("guess_word", 400, gid, pid)
               ELSE LET correct == cleaned = Val(game.villager_word)
                        winner == IF correct THEN "dragon" ELSE "villagers"
                    IN /\ game' = transition_to_finished(
                                      [game EXCEPT !.dragon_guess = Some(cleaned)], winner)
                       /\ resp' = Reply("guess_word", winner, TRUE, game, gid, pid, tok)
                       /\ UNCHANGED hist
    /\ UNCHANGED <<now, awaiting_json>>

GuessWord(gid, pid, tok, guess) ==
    /\ IF AuthStatus(gid, pid, tok) # 0 THEN Reject("guess_word", AuthStatus(gid, pid, tok), gid, pid)
       ELSE IF ~ get_game(gid) THEN Reject("guess_word", 404, gid, pid)
       ELSE IF ~ IsDragonPlayer(game, pid) THEN Reject("guess_word", 403, gid, pid)
       ELSE IF ~ GuessPhase(game) THEN Reject("guess_word", 400, gid, pid)
       ELSE IF game.villager_word = None \/ game.villager_word = Some(<<>>) THEN
            Reject("guess_word", 500, gid, pid)
       ELSE LET cleaned == Lower(Strip(guess))
            IN IF Len(cleaned) > MaxGuessLen THEN Reject("guess_word", 400, gid, pid)
               ELSE IF cleaned = <<>> THEN Reject("guess_word", 400, gid, pid)
               ELSE LET correct == cleaned = Lower(Val(game.villager_word))
                        winner == IF correct THEN "dragon" ELSE "villagers"
                    IN /\ game' = transition_to_finished(
                                      [game EXCEPT !.dragon_guess = Some(cleaned)], winner)
                       /\ resp' = Reply("guess_word", winner, TRUE, game, gid, pid, tok)
                       /\ UNCHANGED hist
    /\ UNCHANGED <<now, awaiting_json>>

\* a request that fails authentication is refused whatever it carries, so the
\* payloads are drawn for the authenticated requests (and for those of handlers
\* that ask for no credential); the others carry one payload
Authentic(r) == r[3] = Token(r[1], r[2])

VoteRequests ==
    { <<r, target>> \in Requests \X ReqIds : Authentic(r) \/ target = HostId }

GuessRequests ==
    { <<r, guess>> \in Requests \X Guesses : Authentic(r) \/ guess = <<"b", "a">> }

Next ==
    \/ Tick
    \/ \E gid \in GameIds : Join(gid)
    \/ \E r \in Requests : StartGame(r[1], r[2], r[3])
    \/ \E r \in Requests : SetTimerBegin(r[1], r[2])
    \/ \E tok \in TokenInputs(GameId, HostId), v \in TimerInputs : SetTimerBody(tok, v)
    \/ \E r \in Requests : StartVoting(r[1], r[2], r[3])
    \/ \E r \in Requests : GetTimer(r[1], r[2], r[3])
    \/ \E q \in VoteRequests : SubmitVote(q[1][1], q[1][2], q[1][3], q[2])
    \/ \E q \in GuessRequests : GuessWord(q[1][1], q[1][2], q[1][3], q[2])

Spec == Init /\ [][Next]_vars

\* ---- games of one more player, in which a round can eliminate a player and the
\* game go on: the requests are those of the players with their own tokens ----
BigRoster == MaxPlayers + 1

RoundRequests == { <<GameId, pid, Token(GameId, pid)>> : pid \in 1..BigRoster }

RoundTargets == 1..MaxPlayers

RoundTimers == {None, Some(MinTimer)}

RoundGuesses == { <<" ", "A", "B", " ">>, <<"b", "a">> }

NextRounds ==
    \/ Tick
    \/ JoinWithin(BigRoster, GameId)
    \/ \E r \in RoundRequests : StartGame(r[1], r[2], r[3])
    \/ \E r \in RoundRequests : SetTimerBegin(r[1], r[2])
    \/ \E v \in RoundTimers : SetTimerBody(Token(GameId, HostId), v)
    \/ \E r \in RoundRequests : StartVoting(r[1], r[2], r[3])
    \/ \E r \in RoundRequests : GetTimer(r[1], r[2], r[3])
    \/ \E r \in RoundRequests, target \in RoundTargets : SubmitVote(r[1], r[2], r[3], target)
    \/ \E r \in RoundRequests, guess \in RoundGuesses : GuessWord(r[1], r[2], r[3], guess)

SpecRounds == Init /\ [][NextRounds]_vars

\* ---- a round against the clock: the players with their own tokens, with time
\* advancing and the alive players polling the timer again and again ----
LiveRequests == { <<GameId, pid, Token(GameId, pid)>> : pid \in 1..MaxPlayers }

LiveTargets == {HostId, HostId + 1}

LiveTimers == {Some(MinTimer)}

LiveGuesses == { <<" ", "A", "B", " ">> }

\* start_voting while the clock of the model can still advance by the length of
\* a timer
StartVotingInTime(gid, pid, tok) ==
    /\ now + TickStep <= MaxTime
    /\ StartVoting(gid, pid, tok)

\* the timer poll of an alive player
AlivePoll ==
    \E r \in LiveRequests : r[2] \in Alive(game) /\ GetTimer(r[1], r[2], r[3])

NextLive ==
    \/ Tick
    \/ JoinWithin(MaxPlayers, GameId)
    \/ \E r \in LiveRequests : StartGame(r[1], r[2], r[3])
    \/ \E r \in LiveRequests : SetTimerBegin(r[1], r[2])
    \/ \E v \in LiveTimers : SetTimerBody(Token(GameId, HostId), v)
    \/ \E r \in LiveRequests : StartVotingInTime(r[1], r[2], r[3])
    \/ \E r \in LiveRequests : GetTimer(r[1], r[2], r[3])
    \/ \E r \in LiveRequests, target \in LiveTargets : SubmitVote(r[1], r[2], r[3], target)
    \/ \E r \in LiveRequests, guess \in LiveGuesses : GuessWord(r[1], r[2], r[3], guess)

\* time keeps advancing (up to the bound of the clock), and as long as a poll of
\* an alive player would change the session, one is made
SpecLive == Init /\ [][NextLive]_vars /\ WF_vars(Tick) /\ WF_vars(AlivePoll)

\* ---- the remaining time on its own: a session in VOTING with each timer
\* setting, read again and again while the clock advances second by second ----
TimerSettings == {None, Some(MinTimer), Some(MinTimer + 1), Some(MaxTimer)}

\* a session of MinPlayers players whose host set the timer to t and started a
\* voting round at time s
VotingGame(t, s) ==
    LET lobby == set_voting_timer(AddPlayer(AddPlayer(NewGame, 2), 3), t)
        words == CHOOSE w \in WordPairs : TRUE
        roles == CHOOSE r \in RoleAssignments(lobby.players) : TRUE
        g == transition_to_voting(GameStartGame(lobby, words, roles))
    IN IF g.voting_timer_seconds # None
       THEN [g EXCEPT !.voting_started_at = Some(s)]
       ELSE g

InitTimer ==
    /\ \E t \in TimerSettings : game = VotingGame(t, 0)
    /\ now = 0
    /\ awaiting_json = 0
    /\ resp = Reply("start_voting", "voting_started", TRUE, game, GameId, HostId,
                    Token(GameId, HostId))
    /\ hist = [NoHist EXCEPT !.electorate = MinPlayers]

ClockTick ==
    /\ now < MaxClock
    /\ now' = now + 1
    /\ UNCHANGED <<game, awaiting_json, resp, hist>>

\* game.get_voting_time_remaining() is called and its value kept
ReadTimer ==
    /\ resp' = Shown("get_voting_time_remaining", get_voting_time_remaining(game, now))
    /\ UNCHANGED <<game, now, awaiting_json, hist>>

NextTimer == ClockTick \/ ReadTimer

SpecTimer == InitTimer /\ [][NextTimer]_vars

\* ---- the claims ----
Dragon(g) == CHOOSE p \in g.players : g.role[p] = Some(DRAGON)

\* the step is a tally: the last vote of the round has landed
TallyStep == hist'.tallies > hist.tallies

TimerRanOut ==
    /\ game.voting_timer_seconds # None /\ game.voting_started_at # None
    /\ now - Val(game.voting_started_at) >= Val(game.voting_timer_seconds)

\* C1: in one voting round the timer-expiry transition VOTING -> PLAYING is applied
\* at most once, and once it is applied the session is out of VOTING, so a later
\* poll of the same round that also finds the time run out does not repeat it.
C1_SingleExpiry ==
    /\ hist.expiries <= 1
    /\ hist.expiries = 1 => game.state # VOTING

\* a poll by an alive player after the expiry of the round, with the time still
\* run out, was answered without a second transition
C1_Witness ==
    /\ hist.expiries = 1
    /\ TimerRanOut
    /\ resp.op = "get_timer" /\ resp.result = "hidden"
    /\ game.state = PLAYING

\* C2: in every voting round the tally runs at most once, and it has run exactly
\* when every player alive at the start of the round has had a vote accepted; the
\* request that completed the round broadcast the result.
C2_OneTallyPerRound ==
    /\ hist.tallies <= 1
    /\ hist.electorate > 0 => (hist.tallies = 1 <=> hist.accepted = hist.electorate)
    /\ resp.result = "vote_complete" => resp.bcast /\ hist.tallies = 1

\* all three alive players voted and the round was tallied once
C2_Witness ==
    /\ hist.electorate = MinPlayers /\ hist.accepted = hist.electorate
    /\ hist.tallies = 1
    /\ resp.result = "vote_complete"

MutatingOps == {"start_game", "set_timer", "start_voting", "submit_vote", "guess_word"}

\* C3: a request refused with an error status (not found, forbidden, wrong phase,
\* invalid input) leaves the session exactly as it was and is followed by no
\* broadcast.
C3_RejectedLeavesState ==
    [][resp'.status >= 400 => game' = game /\ ~ resp'.bcast]_vars

\* a guess by the Dragon in DRAGON_GUESS was refused (empty or too long)
C3_Witness ==
    /\ game.state = DRAGON_GUESS
    /\ resp.op = "guess_word" /\ resp.status = 400
    /\ game.dragon_guess = None /\ game.winner = None

Edges ==
    { <<LOBBY, PLAYING>>, <<PLAYING, VOTING>>, <<VOTING, PLAYING>>,
      <<VOTING, DRAGON_GUESS>>, <<VOTING, FINISHED>>, <<DRAGON_GUESS, FINISHED>> }

\* C4: the session starts in LOBBY and every change of phase follows one of the
\* six edges of the state machine.
C4_PhaseEdges ==
    /\ game.state = LOBBY
    /\ [][game'.state # game.state => <<game.state, game'.state>> \in Edges]_vars

\* a session that went LOBBY, PLAYING, VOTING, DRAGON_GUESS, FINISHED
C4_Witness == game.state = FINISHED /\ game.dragon_guess # None

\* C5: FINISHED is terminal: no step changes a finished session.
C5_FinishedTerminal == [][game.state = FINISHED => game' = game]_vars

\* a finished session on which a further guess was refused
C5_Witness ==
    /\ game.state = FINISHED
    /\ resp.op = "guess_word" /\ resp.status = 400 /\ resp.by_host

\* C6: a mutating operation changes the session only when the credential of the
\* request is the token of the (session, player) pair the request names.
C6_OnlyAuthenticated ==
    [][game' # game /\ resp'.op \in MutatingOps \cup {"get_timer"} => resp'.authentic]_vars

HostOps == {"start_game", "set_timer", "start_voting"}

\* C7: exactly one player is host in every state; start game, set timer and start
\* voting succeed only for a request naming the host, and a request naming a
\* non-host or unknown player is refused (401, 403 or 404) and changes nothing.
C7_HostOnly ==
    /\ [](Cardinality({p \in game.players : game.is_host[p]}) = 1)
    /\ [](resp.op \in HostOps /\ resp.status = 200 => resp.by_host)
    /\ [](resp.op \in HostOps /\ ~ resp.by_host => resp.status \in {401, 403, 404})
    /\ [][resp'.op \in HostOps /\ ~ resp'.by_host => game' = game]_vars

\* a non-host's request to start voting in PLAYING was refused as forbidden
C7_Witness ==
    /\ game.state = PLAYING
    /\ resp.op = "start_voting" /\ resp.status = 403 /\ ~ resp.by_host

\* C8: a tally eliminates a player only if it received strictly more votes than
\* every other player; when two or more targets share the maximum, no alive flag
\* changes and the session returns to PLAYING.
C8_StrictPlurality ==
    [][TallyStep =>
         /\ \A p \in game.players :
                game.is_alive[p] /\ ~ game'.is_alive[p] =>
                    \A q \in game.players \ {p} : VoteCount(game', p) > VoteCount(game', q)
         /\ (\E p, q \in game.players :
                /\ p # q
                /\ VoteCount(game', p) = VoteCount(game', q)
                /\ VoteCount(game', p) > 0
                /\ \A u \in game.players : VoteCount(game', u) <= VoteCount(game', p))
            => game'.is_alive = game.is_alive /\ game'.state = PLAYING]_vars

\* a three-way tie was tallied: nobody eliminated, back in PLAYING
C8_Witness ==
    /\ hist.tallies = 1 /\ resp.result = "vote_complete"
    /\ \A p \in game.players : VoteCount(game, p) = 1
    /\ Alive(game) = game.players
    /\ game.state = PLAYING

\* C9: while a round lasts, a recorded vote is never overwritten or removed, and
\* every accepted vote adds a new voter: a second vote of a voter is not accepted.
C9_FirstVoteFinal ==
    /\ [][game.state = VOTING /\ game'.state = VOTING =>
            \A p \in DOMAIN game.votes :
                p \in DOMAIN game'.votes /\ game'.votes[p] = game.votes[p]]_vars
    /\ [][hist'.accepted > hist.accepted =>
            Cardinality(DOMAIN game'.votes) = Cardinality(DOMAIN game.votes) + 1]_vars

\* the host has voted and a further vote request of the host was refused
C9_Witness ==
    /\ game.state = VOTING
    /\ HostId \in DOMAIN game.votes
    /\ resp.op = "submit_vote" /\ resp.status = 400 /\ resp.by_host

\* C10: a tally that eliminates the Dragon moves the session to DRAGON_GUESS and
\* sets no winner.
C10_DragonToGuess ==
    [][TallyStep /\ game.is_alive[Dragon(game)] /\ ~ game'.is_alive[Dragon(game)] =>
         game'.state = DRAGON_GUESS /\ game'.winner = None]_vars

\* the Dragon was voted out and the session waits for its guess
C10_Witness ==
    /\ game.state = DRAGON_GUESS
    /\ ~ game.is_alive[Dragon(game)]
    /\ game.winner = None
    /\ resp.result = "vote_complete"

NonDragonsAlive(g) == {p \in Alive(g) : g.role[p] # Some(DRAGON)}

\* C11: a tally that leaves the Dragon alive ends the game with winner "dragon"
\* when fewer than 2 non-Dragon players are alive after it, and otherwise sets no
\* winner and returns the session to PLAYING.
C11_AttritionOrContinue ==
    [][TallyStep /\ game'.is_alive[Dragon(game)] =>
         IF Cardinality(NonDragonsAlive(game')) < 2
         THEN game'.state = FINISHED /\ game'.winner = Some("dragon")
         ELSE game'.state = PLAYING /\ game'.winner = None]_vars

\* one round eliminated a non-Dragon and the game went on; a later round
\* eliminated another one and the Dragon won by attrition
C11_Witness ==
    /\ game.state = FINISHED /\ game.winner = Some("dragon")
    /\ game.dragon_guess = None
    /\ Cardinality(game.players \ Alive(game)) = 2
    /\ game.is_alive[Dragon(game)]
    /\ resp.result = "vote_complete"

\* the step is a guess_word request answered (the clock and the suspended
\* set_timer requests stand still, and the last answer is one of guess_word)
GuessStep ==
    /\ resp'.op = "guess_word"
    /\ now' = now /\ awaiting_json' = awaiting_json
    /\ <<game', resp'>> # <<game, resp>>

\* two texts are the same word when they are equal after trimming and case-folding
SameWord(a, b) == Lower(Strip(a)) = Lower(Strip(b))

\* C12: a guess that guess_word accepts ends the game: the guess is stored, trimmed
\* and case-folded, in dragon_guess; the winner is "dragon" when the guess is the
\* common (villager) word up to surrounding blanks and case, and "villagers" for
\* every other accepted guess, the special (Knight) word included.
C12_GuessOutcome ==
    [][GuessStep /\ resp'.status = 200 =>
         /\ game.state = DRAGON_GUESS /\ game'.state = FINISHED
         /\ \A q \in GuessRequests :
                GuessWord(q[1][1], q[1][2], q[1][3], q[2]) =>
                    /\ game'.dragon_guess = Some(Lower(Strip(q[2])))
                    /\ game'.winner =
                           IF SameWord(q[2], Val(game.villager_word))
                           THEN Some("dragon") ELSE Some("villagers")
                    /\ SameWord(q[2], Val(game.knight_word)) =>
                           game'.winner = Some("villagers")]_vars

\* the Dragon guessed the common word in another case and between blanks, and won
C12_Witness ==
    /\ game.state = FINISHED /\ game.winner = Some("dragon")
    /\ game.dragon_guess = Some(<<"a", "b">>)
    /\ game.villager_word = Some(<<"A", "b">>)
    /\ resp.op = "guess_word" /\ resp.status = 200

\* C13: guess_word is accepted only for a request of the Dragon with the Dragon's
\* own token, in DRAGON_GUESS, with a guess that after trimming is not empty and
\* has at most 50 characters; every other guess_word request fails and leaves the
\* phase, the winner and dragon_guess as they were.  (An accepted guess changes
\* the session, so it is the requests that change it that are required to meet
\* the conditions, and every request not answered 200 to be an error that keeps
\* the three fields.)
C13_GuessAcceptedOnly ==
    [][GuessStep =>
         /\ resp'.status = 200 => game' # game
         /\ game' # game =>
              /\ resp'.status = 200
              /\ \A q \in GuessRequests :
                    GuessWord(q[1][1], q[1][2], q[1][3], q[2]) =>
                        /\ q[1][1] = GameId /\ Authentic(q[1])
                        /\ q[1][2] \in game.players
                        /\ game.role[q[1][2]] = Some(DRAGON)
                        /\ game.state = DRAGON_GUESS
                        /\ Strip(q[2]) # <<>>
                        /\ Len(Strip(q[2])) <= MaxGuessLen
         /\ resp'.status # 200 =>
              /\ resp'.status >= 400
              /\ game'.state = game.state
              /\ game'.winner = game.winner
              /\ game'.dragon_guess = game.dragon_guess]_vars

\* the Dragon sent a guess while the round was still being voted, and was refused
C13_Witness ==
    /\ game.state = VOTING
    /\ resp.op = "guess_word" /\ resp.status = 400
    /\ game.dragon_guess = None /\ game.winner = None

\* the step is set_timer answering after its body has arrived
SetTimerStep == resp'.op = "set_timer" /\ awaiting_json' = awaiting_json - 1

\* C14: setting the voting timer to v succeeds exactly when the session is in
\* LOBBY and v is None or 30 <= v <= 180, and then voting_timer_seconds = v;
\* otherwise it fails and voting_timer_seconds keeps its value.  So
\* voting_timer_seconds is always None or within [30, 180], and no step changes
\* it once the session has left LOBBY.
C14_TimerBounds ==
    /\ [](\/ game.voting_timer_seconds = None
          \/ /\ Val(game.voting_timer_seconds) >= 30
             /\ Val(game.voting_timer_seconds) <= 180)
    /\ [][game.state # LOBBY =>
            game'.voting_timer_seconds = game.voting_timer_seconds]_vars
    /\ [][SetTimerStep =>
            \A tok \in TokenInputs(GameId, HostId), v \in TimerInputs :
                SetTimerBody(tok, v) =>
                    LET ok == /\ game.state = LOBBY
                              /\ v = None \/ (Val(v) >= 30 /\ Val(v) <= 180)
                    IN /\ resp'.status = 200 <=> ok
                       /\ ok => game'.voting_timer_seconds = v
                       /\ ~ ok => /\ resp'.status >= 400
                                  /\ game'.voting_timer_seconds =
                                         game.voting_timer_seconds]_vars

\* the timer was set to 180 in the lobby, and a later value was refused and 180 kept
C14_Witness ==
    /\ game.state = LOBBY
    /\ game.voting_timer_seconds = Some(180)
    /\ resp.op = "set_timer" /\ resp.status = 400

\* the step is a read of the remaining time
ReadStep == resp'.op = "get_voting_time_remaining" /\ now' = now

\* C15: the remaining time read is None when no timer is configured; otherwise,
\* with e the seconds elapsed since voting_started_at, it is the full duration
\* at e = 0, the duration minus e while e is below the duration, 0 for every e
\* at or beyond the duration, never negative, and never more than the value
\* read before it.
C15_TimeRemaining ==
    [][ReadStep =>
         LET r == resp'.result
         IN IF game.voting_timer_seconds = None THEN r = None
            ELSE LET d == Val(game.voting_timer_seconds)
                     e == now - Val(game.voting_started_at)
                 IN /\ r # None
                    /\ Val(r) >= 0
                    /\ e = 0 => Val(r) = d
                    /\ e < d => Val(r) = d - e
                    /\ e >= d => Val(r) = 0
                    /\ resp.op = "get_voting_time_remaining" =>
                          Val(r) <= Val(resp.result)]_vars

\* a timer of 30 seconds, read more than 30 seconds after the start, gave 0
C15_Witness ==
    /\ game.voting_timer_seconds = Some(30)
    /\ now - Val(game.voting_started_at) > 30
    /\ resp.op = "get_voting_time_remaining" /\ resp.result = Some(0)

\* the step is a timer poll answered
PollStep ==
    /\ resp'.op = "get_timer"
    /\ now' = now /\ awaiting_json' = awaiting_json

\* what C16 says of the poll: VOTING -> PLAYING, nobody eliminated, no winner, no tally
ExpiredWithoutElimination ==
    /\ game'.state = PLAYING
    /\ game'.is_alive = game.is_alive
    /\ game'.winner = None
    /\ hist'.tallies = hist.tallies

\* C16 as stated: in VOTING with a timer that has run out, the next timer poll,
\* whichever player of the session it names, moves the session to PLAYING
\* without elimination.
C16_AnyPollExpires ==
    [][PollStep /\ game.state = VOTING /\ TimerRanOut =>
         \A r \in RoundRequests :
            GetTimer(r[1], r[2], r[3]) /\ r[2] \in game.players =>
                ExpiredWithoutElimination]_vars

\* C16, amended: in VOTING with a timer that has run out, the next timer poll
\* that names an alive player of the session moves the session to PLAYING
\* without elimination: no is_alive flag changes, no winner is set, no tally runs;
\* and from the expiry to the start of the next round the votes of the expired
\* round are not tallied.
C16_ExpiryNoElimination ==
    /\ [][PollStep /\ game.state = VOTING /\ TimerRanOut =>
            \A r \in RoundRequests :
                GetTimer(r[1], r[2], r[3]) /\ r[2] \in Alive(game) =>
                    ExpiredWithoutElimination]_vars
    /\ [](hist.expiries > 0 =>
            /\ hist.tallies = 0
            /\ game.state = PLAYING
            /\ game.winner = None)

\* a round with votes cast expired on a poll, with a player eliminated in an
\* earlier round still eliminated and nobody else
C16_Witness ==
    /\ hist.expiries = 1 /\ resp.result = "expired"
    /\ game.state = PLAYING
    /\ DOMAIN game.votes # {}
    /\ Cardinality(game.players \ Alive(game)) = 1
    /\ hist.tallies = 0 /\ game.winner = None

WithRole(g, r) == {p \in g.players : g.role[p] = Some(r)}

\* C17: in LOBBY no player has a role; in every other phase every player has a
\* role, exactly one player is the Dragon, and the Knights, the Villagers and the
\* Dragon make up the roster.
C17_Roles ==
    IF game.state = LOBBY
    THEN \A p \in game.players : game.role[p] = None
    ELSE /\ \A p \in game.players : game.role[p] # None /\ Val(game.role[p]) \in Role
         /\ Cardinality(WithRole(game, DRAGON)) = 1
         /\ Cardinality(WithRole(game, KNIGHT)) + Cardinality(WithRole(game, VILLAGER)) + 1
                = Cardinality(game.players)

\* a started game of more than 3 players, two of them Villagers
C17_Witness ==
    /\ game.state # LOBBY
    /\ Cardinality(game.players) > 3
    /\ Cardinality(WithRole(game, VILLAGER)) = 2
    /\ Cardinality(WithRole(game, KNIGHT)) = 1

\* the step is a start_game request answered
StartStep ==
    /\ resp'.op = "start_game"
    /\ now' = now /\ awaiting_json' = awaiting_json
    /\ <<game', resp'>> # <<game, resp>>

\* C18: a start_game request changes the session only in LOBBY with at least 3
\* players (and then the session is PLAYING); with fewer than 3 players or in
\* another phase it is refused and the phase, the roles and the words stay.
C18_StartPreconditions ==
    [][StartStep =>
         /\ game' # game =>
              /\ game.state = LOBBY /\ Cardinality(game.players) >= 3
              /\ resp'.status = 200 /\ game'.state = PLAYING
         /\ game.state # LOBBY \/ Cardinality(game.players) < 3 =>
              /\ resp'.status >= 400
              /\ game'.state = game.state
              /\ game'.role = game.role
              /\ game'.villager_word = game.villager_word
              /\ game'.knight_word = game.knight_word]_vars

\* the host asked to start a game that was already started, and was refused
C18_Witness ==
    /\ game.state = PLAYING
    /\ resp.op = "start_game" /\ resp.status = 400 /\ resp.by_host

\* C19: the two words are both unset in LOBBY and both set in every later phase,
\* and once the session has left LOBBY no step changes a word or a role.
C19_WordsAndRolesFixed ==
    /\ [](IF game.state = LOBBY
          THEN game.villager_word = None /\ game.knight_word = None
          ELSE game.villager_word # None /\ game.knight_word # None)
    /\ [][game.state # LOBBY =>
            /\ game'.villager_word = game.villager_word
            /\ game'.knight_word = game.knight_word
            /\ game'.role = game.role]_vars

\* a game played to its end, the Dragon having guessed the Knights' word: the
\* words are those drawn at the start
C19_Witness ==
    /\ game.state = FINISHED /\ game.winner = Some("villagers")
    /\ game.dragon_guess = game.knight_word
    /\ <<Val(game.villager_word), Val(game.knight_word)>> \in WordPairs

\* C20: the vote mapping holds votes of players of the session only; during a
\* round every voter and every target in it is alive and there are no more
\* entries than alive players; a vote is accepted only from an alive player who
\* has no entry, for an alive target; the mapping is empty when a round begins,
\* and a tally counts the votes of that round alone.
C20_VoteMapping ==
    /\ [](/\ DOMAIN game.votes \subseteq game.players
          /\ game.state = VOTING =>
                /\ DOMAIN game.votes \subseteq Alive(game)
                /\ \A v \in DOMAIN game.votes : game.votes[v] \in Alive(game)
                /\ Cardinality(DOMAIN game.votes) <= Cardinality(Alive(game))
                /\ Cardinality(DOMAIN game.votes) = hist.accepted)
    /\ [][hist'.accepted > hist.accepted =>
            \E voter \in Alive(game) \ DOMAIN game.votes :
                /\ DOMAIN game'.votes = DOMAIN game.votes \cup {voter}
                /\ game'.votes[voter] \in Alive(game)]_vars
    /\ [][game.state # VOTING /\ game'.state = VOTING => game'.votes = <<>>]_vars
    /\ [][TallyStep => Cardinality(DOMAIN game'.votes) = hist.electorate]_vars

\* a round after one that eliminated a player: it began with no votes, and a vote
\* of or for the eliminated player was refused
C20_Witness ==
    /\ game.state = VOTING
    /\ game.votes = <<>>
    /\ game.last_result # None /\ ~ game.is_alive[Val(game.last_result)]
    /\ resp.op = "submit_vote" /\ resp.status = 400

\* C21: winner is set, to "villagers" or "dragon", exactly when the session is in
\* FINISHED.
C21_WinnerIffFinished ==
    /\ game.winner # None <=> game.state = FINISHED
    /\ game.winner # None => Val(game.winner) \in {"villagers", "dragon"}

\* a game of 3 players finished by a round that eliminated a non-Dragon: the
\* Dragon won without a guess
C21_Witness ==
    /\ game.state = FINISHED /\ game.winner = Some("dragon")
    /\ game.dragon_guess = None
    /\ Cardinality(game.players) = 3
    /\ Cardinality(Alive(game)) = 2

\* C22: every mutating operation that succeeded (start game, set timer, start
\* voting, submit vote, guess word) and every timer-expiry transition was followed
\* by a broadcast of the session's state.
C22_BroadcastAfterMutation ==
    /\ resp.op \in MutatingOps /\ resp.status = 200 => resp.bcast
    /\ resp.op = "get_timer" /\ resp.result = "expired" => resp.bcast

\* C23: in VOTING with a timer configured voting_started_at is set, so the
\* remaining time is not None, and no timer poll fails its assertion; every start
\* of a round sets voting_started_at to the instant of that start, where the
\* remaining time is the full duration, and no step changes it or the timer while
\* the round lasts; so a round expires only when the timer's duration has passed
\* since that round began.
C23_StartInstant ==
    /\ [](game.state = VOTING /\ game.voting_timer_seconds # None =>
            /\ game.voting_started_at # None
            /\ Val(game.voting_started_at) <= now
            /\ get_voting_time_remaining(game, now) # None)
    /\ [](resp.op = "get_timer" => resp.status = 200)
    /\ [][game.state # VOTING /\ game'.state = VOTING /\ game'.voting_timer_seconds # None =>
            /\ game'.voting_started_at = Some(now)
            /\ get_voting_time_remaining(game', now') = game'.voting_timer_seconds]_vars
    /\ [][game.state = VOTING /\ game'.state = VOTING =>
            /\ game'.voting_started_at = game.voting_started_at
            /\ game'.voting_timer_seconds = game.voting_timer_seconds]_vars
    /\ [][hist'.expiries > hist.expiries =>
            now - Val(game.voting_started_at) >= Val(game.voting_timer_seconds)]_vars

\* a round that began at 30, after a round that eliminated a player, with a timer
\* of 30 seconds: a poll showed the countdown
C23_Witness ==
    /\ game.state = VOTING
    /\ game.voting_timer_seconds = Some(30) /\ game.voting_started_at = Some(30)
    /\ Cardinality(game.players \ Alive(game)) = 1
    /\ resp.op = "get_timer" /\ resp.result = "countdown"

\* C24: with time advancing and the alive players polling the timer, a voting
\* round with a timer configured is eventually left (by a tally or by the expiry
\* of the timer), whether or not every alive player votes.
C24_TimedRoundEnds ==
    (game.state = VOTING /\ game.voting_timer_seconds # None) ~> (game.state # VOTING)

\* a round with a timer in which not every alive player had voted was ended by
\* the expiry of the timer
C24_Witness ==
    /\ game.state = PLAYING /\ game.voting_timer_seconds # None
    /\ hist.expiries = 1 /\ hist.tallies = 0
    /\ hist.accepted > 0 /\ hist.accepted < hist.electorate
    /\ resp.op = "get_timer" /\ resp.result = "expired"

====
